---- MODULE Spec2Model ----
(***************************************************************************)
(* Piece positions on a chess board (shakmaty, src/board.rs).              *)
(*                                                                         *)
(* A Bitboard is modelled as the set of the squares whose bit is set; a    *)
(* square is its index 0..63 (file = index mod 8, rank = index div 8).     *)
(* A Board is the record of its three fields by_role, by_color, occupied.  *)
(* Every method of Board is an operator on such records, translated from   *)
(* its body; the actions of the specification apply these operators.       *)
(***************************************************************************)
EXTENDS Integers, Sequences, FiniteSets, TLC

VARIABLES
    board,      \* the Board value (IntoIter.inner once into_iter was called)
    mode,       \* "board": the caller holds a Board; "iter": an IntoIter;
                \* "panic": from_bitboards failed an assertion
    last,       \* the latest call: its name, its arguments, what it returned
    origin,     \* iter: the board into_iter consumed
    front,      \* iter: the pairs next() has yielded, in order
    back,       \* iter: the pairs next_back() has yielded, in order
    exhausted   \* iter: some call has returned None

vars == <<board, mode, last, origin, front, back, exhausted>>

----------------------------------------------------------------------------
(* Bounds of the model.                                                    *)

\* set_piece_at fills a board up to this many pieces; pop_front, pop_back
\* and into_iter are called on boards of at most this many pieces (larger
\* boards, such as new(), are transformed and queried).
MaxPieces == 2

\* The tables given to from_bitboards have at most this many bits set in
\* the role-sets, and at most this many in the color-sets.
MaxBits == 2

\* The squares that set_piece_at, remove_piece_at and discard_piece_at take
\* as arguments, and the squares of the tables given to from_bitboards:
\* c3 and f6.  The seven transforms move their pieces to f3 and c6 too.
ArgSquares == {18, 45}

\* set_piece_at fills the boards the attack queries are asked of up to this
\* many pieces.
MaxAttackPieces == 2

\* The squares those pieces stand on: e1, e2, e4 (one file), c2, d3 (with
\* e4, one diagonal; d3 is a king step from e2 and e4, a knight jump from
\* e1, as c2 is).
AttackSquares == {4, 12, 28, 10, 19}

\* The pieces placed on them: one of each role, of both colors for pawns.
AttackPieces ==
    {[color |-> "white", role |-> "rook"],
     [color |-> "black", role |-> "queen"],
     [color |-> "white", role |-> "bishop"],
     [color |-> "white", role |-> "knight"],
     [color |-> "white", role |-> "pawn"],
     [color |-> "black", role |-> "pawn"],
     [color |-> "black", role |-> "king"]}

----------------------------------------------------------------------------
(* Square, Role, Color, Piece.                                             *)

Squares == 0..63

File(sq) == sq % 8
Rank(sq) == sq \div 8
from_coords(file, rank) == rank * 8 + file

\* Role, in the order of the fields of ByRole.
RoleSeq == <<"pawn", "knight", "bishop", "rook", "queen", "king">>
Roles == {RoleSeq[i] : i \in 1..Len(RoleSeq)}

\* Color, in the order ByColor::find tries its fields.
ColorSeq == <<"white", "black">>
Colors == {"white", "black"}

Pieces == [color : Colors, role : Roles]

\* Option<T>: None is the empty set, Some(x) the singleton of x.
None == {}
Some(x) == {x}
unwrap(opt) == CHOOSE x \in opt : TRUE

\* Color::from_white
from_white(white) == IF white THEN "white" ELSE "black"

\* !color
other(color) == IF color = "white" THEN "black" ELSE "white"

----------------------------------------------------------------------------
(* Bitboard: the operations Board uses.                                    *)

EMPTY == {}

\* Bitboard(0x....): the literal, given as its four 16-bit groups from the
\* most significant one, as the source writes it.  Bit i is square i.
Bit(n, i) == (n \div (2 ^ i)) % 2 = 1
Bitboard(groups) ==
    {sq \in Squares : Bit(groups[4 - (sq \div 16)], sq % 16)}

contains(bb, sq) == sq \in bb
toggle(bb, sq) == IF sq \in bb THEN bb \ {sq} ELSE bb \cup {sq}
discard(bb, sq) == bb \ {sq}
is_disjoint(a, b) == a \cap b = {}
BitOr(a, b) == a \cup b
BitAnd(a, b) == a \cap b
BitXor(a, b) == (a \ b) \cup (b \ a)
count(bb) == Cardinality(bb)

Min(S) == CHOOSE x \in S : \A y \in S : x <= y
Max(S) == CHOOSE x \in S : \A y \in S : x >= y
first(bb) == IF bb = {} THEN None ELSE Some(Min(bb))
last_square(bb) == IF bb = {} THEN None ELSE Some(Max(bb))

\* Bitboard::single_square: the square of a set that holds exactly one.
single_square(bb) == IF count(bb) = 1 THEN first(bb) ELSE None

\* The seven geometric bijections of a Bitboard.
bb_flip_vertical(bb) == {from_coords(File(sq), 7 - Rank(sq)) : sq \in bb}
bb_flip_horizontal(bb) == {from_coords(7 - File(sq), Rank(sq)) : sq \in bb}
bb_flip_diagonal(bb) == {from_coords(Rank(sq), File(sq)) : sq \in bb}
bb_flip_anti_diagonal(bb) ==
    {from_coords(7 - Rank(sq), 7 - File(sq)) : sq \in bb}
bb_rotate_90(bb) == {from_coords(Rank(sq), 7 - File(sq)) : sq \in bb}
bb_rotate_180(bb) == {from_coords(7 - File(sq), 7 - Rank(sq)) : sq \in bb}
bb_rotate_270(bb) == {from_coords(7 - Rank(sq), File(sq)) : sq \in bb}

Transforms ==
    {"flip_vertical", "flip_horizontal", "flip_diagonal",
     "flip_anti_diagonal", "rotate_90", "rotate_180", "rotate_270"}

\* The Bitboard method a named transform passes to Board::transform.
Apply(f, bb) ==
    CASE f = "flip_vertical" -> bb_flip_vertical(bb)
      [] f = "flip_horizontal" -> bb_flip_horizontal(bb)
      [] f = "flip_diagonal" -> bb_flip_diagonal(bb)
      [] f = "flip_anti_diagonal" -> bb_flip_anti_diagonal(bb)
      [] f = "rotate_90" -> bb_rotate_90(bb)
      [] f = "rotate_180" -> bb_rotate_180(bb)
      [] f = "rotate_270" -> bb_rotate_270(bb)

----------------------------------------------------------------------------
(* ByRole<T>, ByColor<T>: functions from Roles, from Colors.               *)

\* ByRole::find / ByColor::find: the first key, in field order, whose slot
\* satisfies the predicate (here: contains(sq)); None if there is none.
FindIn(seq, table, sq) ==
    IF \E i \in 1..Len(seq) : sq \in table[seq[i]]
    THEN Some(seq[CHOOSE i \in 1..Len(seq) :
                 /\ sq \in table[seq[i]]
                 /\ \A j \in 1..(i - 1) : sq \notin table[seq[j]]])
    ELSE None

----------------------------------------------------------------------------
(* attacks: the attack tables Board consults.                              *)

Abs(x) == IF x < 0 THEN -x ELSE x

\* a and b are distinct squares of one rank or file / of one diagonal.
OnRookLine(a, b) == a # b /\ (File(a) = File(b) \/ Rank(a) = Rank(b))
OnBishopLine(a, b) ==
    a # b /\ Abs(File(a) - File(b)) = Abs(Rank(a) - Rank(b))

\* attacks::between: the squares strictly between two squares of one rank,
\* file or diagonal; empty for any other two squares.
between(a, b) ==
    IF ~(OnRookLine(a, b) \/ OnBishopLine(a, b)) THEN EMPTY
    ELSE {t \in Squares :
            /\ t # a /\ t # b
            /\ (File(t) - File(a)) * (Rank(b) - Rank(a))
                  = (Rank(t) - Rank(a)) * (File(b) - File(a))
            /\ Abs(File(t) - File(a)) + Abs(File(b) - File(t))
                  = Abs(File(b) - File(a))
            /\ Abs(Rank(t) - Rank(a)) + Abs(Rank(b) - Rank(t))
                  = Abs(Rank(b) - Rank(a))}

\* The tables, computed once.
BetweenTable == [a \in Squares |-> [b \in Squares |-> between(a, b)]]
RookLines == [a \in Squares |-> {b \in Squares : OnRookLine(a, b)}]
BishopLines == [a \in Squares |-> {b \in Squares : OnBishopLine(a, b)}]
KnightTable ==
    [a \in Squares |->
        {b \in Squares :
            {Abs(File(a) - File(b)), Abs(Rank(a) - Rank(b))} = {1, 2}}]
KingTable ==
    [a \in Squares |->
        {b \in Squares :
            /\ a # b
            /\ Abs(File(a) - File(b)) <= 1
            /\ Abs(Rank(a) - Rank(b)) <= 1}]
\* A white pawn attacks the two squares diagonally ahead of it (one rank
\* up), a black pawn the two diagonally below it.
PawnTable ==
    [c \in Colors |->
        [a \in Squares |->
            {b \in Squares :
                /\ Abs(File(a) - File(b)) = 1
                /\ Rank(b) - Rank(a) = (IF c = "white" THEN 1 ELSE -1)}]]

\* A slider attacks along its lines up to and including the first square
\* of the occupancy it meets.
rook_attacks(sq, occupied) ==
    {t \in RookLines[sq] : is_disjoint(BetweenTable[sq][t], occupied)}
bishop_attacks(sq, occupied) ==
    {t \in BishopLines[sq] : is_disjoint(BetweenTable[sq][t], occupied)}
queen_attacks(sq, occupied) ==
    BitOr(rook_attacks(sq, occupied), bishop_attacks(sq, occupied))
knight_attacks(sq) == KnightTable[sq]
king_attacks(sq) == KingTable[sq]
pawn_attacks(color, sq) == PawnTable[color][sq]

\* attacks::attacks: the squares a piece on sq attacks.
attacks(sq, piece, occupied) ==
    CASE piece.role = "pawn" -> pawn_attacks(piece.color, sq)
      [] piece.role = "knight" -> knight_attacks(sq)
      [] piece.role = "bishop" -> bishop_attacks(sq, occupied)
      [] piece.role = "rook" -> rook_attacks(sq, occupied)
      [] piece.role = "queen" -> queen_attacks(sq, occupied)
      [] piece.role = "king" -> king_attacks(sq)

----------------------------------------------------------------------------
(* Board: construction.                                                    *)

Board(r, c, o) == [by_role |-> r, by_color |-> c, occupied |-> o]

\* new with the white set one rank short.
new_white_first_rank ==
    Board([pawn   |-> Bitboard(<<\H00ff, \H0000, \H0000, \Hff00>>),
           knight |-> Bitboard(<<\H4200, \H0000, \H0000, \H0042>>),
           bishop |-> Bitboard(<<\H2400, \H0000, \H0000, \H0024>>),
           rook   |-> Bitboard(<<\H8100, \H0000, \H0000, \H0081>>),
           queen  |-> Bitboard(<<\H0800, \H0000, \H0000, \H0008>>),
           king   |-> Bitboard(<<\H1000, \H0000, \H0000, \H0010>>)],
          [black |-> Bitboard(<<\Hffff, \H0000, \H0000, \H0000>>),
           white |-> Bitboard(<<\H0000, \H0000, \H0000, \H00ff>>)],
          Bitboard(<<\Hffff, \H0000, \H0000, \Hffff>>))

new ==
    Board([pawn   |-> Bitboard(<<\H00ff, \H0000, \H0000, \Hff00>>),
           knight |-> Bitboard(<<\H4200, \H0000, \H0000, \H0042>>),
           bishop |-> Bitboard(<<\H2400, \H0000, \H0000, \H0024>>),
           rook   |-> Bitboard(<<\H8100, \H0000, \H0000, \H0081>>),
           queen  |-> Bitboard(<<\H0800, \H0000, \H0000, \H0008>>),
           king   |-> Bitboard(<<\H1000, \H0000, \H0000, \H0010>>)],
          [black |-> Bitboard(<<\Hffff, \H0000, \H0000, \H0000>>),
           white |-> Bitboard(<<\H0000, \H0000, \H0000, \Hffff>>)],
          Bitboard(<<\Hffff, \H0000, \H0000, \Hffff>>))

empty ==
    Board([r \in Roles |-> EMPTY], [c \in Colors |-> EMPTY], EMPTY)

\* The loop of from_bitboards over the role-sets, in field order, from
\* index i on: the first assertion that fails ends it.
RECURSIVE RoleFold(_, _, _)
RoleFold(by_role, i, occ) ==
    IF i > Len(RoleSeq) THEN [ok |-> TRUE, occupied |-> occ]
    ELSE IF ~is_disjoint(occ, by_role[RoleSeq[i]])
         THEN [ok |-> FALSE, occupied |-> occ]
         ELSE RoleFold(by_role, i + 1, BitOr(occ, by_role[RoleSeq[i]]))

\* from_bitboards without the assertion that the color-sets are disjoint.
from_bitboards_no_color_check(by_role, by_color) ==
    LET fold == RoleFold(by_role, 1, EMPTY) IN
    IF ~fold.ok THEN [panic |-> TRUE, msg |-> "by_role not disjoint"]
    ELSE IF fold.occupied # BitOr(by_color["black"], by_color["white"])
         THEN [panic |-> TRUE, msg |-> "by_role does not match by_color"]
    ELSE [panic |-> FALSE,
          board |-> Board(by_role, by_color, fold.occupied)]

\* from_bitboards comparing the union of the role-sets with the white set
\* alone.
from_bitboards_match_white(by_role, by_color) ==
    LET fold == RoleFold(by_role, 1, EMPTY) IN
    IF ~fold.ok THEN [panic |-> TRUE, msg |-> "by_role not disjoint"]
    ELSE IF ~is_disjoint(by_color["black"], by_color["white"])
         THEN [panic |-> TRUE, msg |-> "by_color not disjoint"]
    ELSE IF fold.occupied # by_color["white"]
         THEN [panic |-> TRUE, msg |-> "by_role does not match by_color"]
    ELSE [panic |-> FALSE,
          board |-> Board(by_role, by_color, fold.occupied)]

\* from_bitboards: [panic |-> TRUE] when an assertion fails, else the Board.
from_bitboards(by_role, by_color) ==
    LET fold == RoleFold(by_role, 1, EMPTY) IN
    IF ~fold.ok THEN [panic |-> TRUE, msg |-> "by_role not disjoint"]
    ELSE IF ~is_disjoint(by_color["black"], by_color["white"])
         THEN [panic |-> TRUE, msg |-> "by_color not disjoint"]
    ELSE IF fold.occupied # BitOr(by_color["black"], by_color["white"])
         THEN [panic |-> TRUE, msg |-> "by_role does not match by_color"]
    ELSE [panic |-> FALSE,
          board |-> Board(by_role, by_color, fold.occupied)]

into_bitboards(b) == <<b.by_role, b.by_color>>

racing_kings ==
    Board([pawn   |-> Bitboard(<<\H0000, \H0000, \H0000, \H0000>>),
           knight |-> Bitboard(<<\H0000, \H0000, \H0000, \H1818>>),
           bishop |-> Bitboard(<<\H0000, \H0000, \H0000, \H2424>>),
           rook   |-> Bitboard(<<\H0000, \H0000, \H0000, \H4242>>),
           queen  |-> Bitboard(<<\H0000, \H0000, \H0000, \H0081>>),
           king   |-> Bitboard(<<\H0000, \H0000, \H0000, \H8100>>)],
          [black |-> Bitboard(<<\H0000, \H0000, \H0000, \H0f0f>>),
           white |-> Bitboard(<<\H0000, \H0000, \H0000, \Hf0f0>>)],
          Bitboard(<<\H0000, \H0000, \H0000, \Hffff>>))

horde ==
    Board([pawn   |-> Bitboard(<<\H00ff, \H0066, \Hffff, \Hffff>>),
           knight |-> Bitboard(<<\H4200, \H0000, \H0000, \H0000>>),
           bishop |-> Bitboard(<<\H2400, \H0000, \H0000, \H0000>>),
           rook   |-> Bitboard(<<\H8100, \H0000, \H0000, \H0000>>),
           queen  |-> Bitboard(<<\H0800, \H0000, \H0000, \H0000>>),
           king   |-> Bitboard(<<\H1000, \H0000, \H0000, \H0000>>)],
          [black |-> Bitboard(<<\Hffff, \H0000, \H0000, \H0000>>),
           white |-> Bitboard(<<\H0000, \H0066, \Hffff, \Hffff>>)],
          Bitboard(<<\Hffff, \H0066, \Hffff, \Hffff>>))

----------------------------------------------------------------------------
(* Board: queries.                                                         *)

color_at(b, sq) == FindIn(ColorSeq, b.by_color, sq)

role_at(b, sq) ==
    IF ~contains(b.occupied, sq) THEN None
    ELSE FindIn(RoleSeq, b.by_role, sq)

\* piece_at taking the color from membership in the black set.
piece_at_color_from_black(b, sq) ==
    LET role == role_at(b, sq) IN
    IF role = None THEN None
    ELSE Some([color |-> from_white(contains(b.by_color["black"], sq)),
               role |-> unwrap(role)])

piece_at(b, sq) ==
    LET role == role_at(b, sq) IN
    IF role = None THEN None
    ELSE Some([color |-> from_white(contains(b.by_color["white"], sq)),
               role |-> unwrap(role)])

by_color(b, color) == b.by_color[color]
by_role(b, role) == b.by_role[role]
by_piece(b, piece) == BitAnd(by_color(b, piece.color), by_role(b, piece.role))

material_side(b, color) ==
    LET side == by_color(b, color) IN
    [r \in Roles |-> count(BitAnd(b.by_role[r], side))]

material(b) == [c \in Colors |-> material_side(b, c)]

\* Bishops, rooks and queens.
sliders(b) ==
    BitXor(BitXor(b.by_role["bishop"], b.by_role["rook"]), b.by_role["queen"])

\* Pawns, knights and kings.
steppers(b) ==
    BitXor(BitXor(b.by_role["pawn"], b.by_role["knight"]), b.by_role["king"])

rooks_and_queens(b) == BitXor(b.by_role["rook"], b.by_role["queen"])
bishops_and_queens(b) == BitXor(b.by_role["bishop"], b.by_role["queen"])

\* king_of without the intersection with the color-set.
king_of_any_color(b, color) == single_square(b.by_role["king"])

\* The (unique!) king of the given side, if any.
king_of(b, color) ==
    single_square(BitAnd(b.by_role["king"], by_color(b, color)))

attacks_from(b, sq) ==
    LET piece == piece_at(b, sq) IN
    IF piece = None THEN EMPTY
    ELSE attacks(sq, unwrap(piece), b.occupied)

\* attacks_to reading the board's own occupied, not the one it is given.
attacks_to_own_occupied(b, sq, attacker, occupied) ==
    BitAnd(by_color(b, attacker),
      BitOr(BitOr(BitOr(BitOr(
        BitAnd(rook_attacks(sq, b.occupied), rooks_and_queens(b)),
        BitAnd(bishop_attacks(sq, b.occupied), bishops_and_queens(b))),
        BitAnd(knight_attacks(sq), b.by_role["knight"])),
        BitAnd(king_attacks(sq), b.by_role["king"])),
        BitAnd(pawn_attacks(other(attacker), sq), b.by_role["pawn"])))

\* attacks_to asking for the pawn attacks of the attacker's own color.
attacks_to_pawn_own_color(b, sq, attacker, occupied) ==
    BitAnd(by_color(b, attacker),
      BitOr(BitOr(BitOr(BitOr(
        BitAnd(rook_attacks(sq, occupied), rooks_and_queens(b)),
        BitAnd(bishop_attacks(sq, occupied), bishops_and_queens(b))),
        BitAnd(knight_attacks(sq), b.by_role["knight"])),
        BitAnd(king_attacks(sq), b.by_role["king"])),
        BitAnd(pawn_attacks(attacker, sq), b.by_role["pawn"])))

attacks_to(b, sq, attacker, occupied) ==
    BitAnd(by_color(b, attacker),
      BitOr(BitOr(BitOr(BitOr(
        BitAnd(rook_attacks(sq, occupied), rooks_and_queens(b)),
        BitAnd(bishop_attacks(sq, occupied), bishops_and_queens(b))),
        BitAnd(knight_attacks(sq), b.by_role["knight"])),
        BitAnd(king_attacks(sq), b.by_role["king"])),
        BitAnd(pawn_attacks(other(attacker), sq), b.by_role["pawn"])))

----------------------------------------------------------------------------
(* Board: mutation.  Each operator returns the Board after the call; the   *)
(* ones that return a value return [board, ret].                           *)

\* remove_piece_at without the toggle of occupied.
remove_piece_at_keep_occupied(b, sq) ==
    LET piece == piece_at(b, sq) IN
    IF piece # None
    THEN LET p == unwrap(piece) IN
         [board |->
            Board([b.by_role EXCEPT ![p.role] = toggle(@, sq)],
                  [b.by_color EXCEPT ![p.color] = toggle(@, sq)],
                  b.occupied),
          ret |-> piece]
    ELSE [board |-> b, ret |-> piece]

\* remove_piece_at toggling the white set whatever the color of the piece.
remove_piece_at_toggle_white(b, sq) ==
    LET piece == piece_at(b, sq) IN
    IF piece # None
    THEN LET p == unwrap(piece) IN
         [board |->
            Board([b.by_role EXCEPT ![p.role] = toggle(@, sq)],
                  [b.by_color EXCEPT !["white"] = toggle(@, sq)],
                  toggle(b.occupied, sq)),
          ret |-> piece]
    ELSE [board |-> b, ret |-> piece]

remove_piece_at(b, sq) ==
    LET piece == piece_at(b, sq) IN
    IF piece # None
    THEN LET p == unwrap(piece) IN
         [board |->
            Board([b.by_role EXCEPT ![p.role] = toggle(@, sq)],
                  [b.by_color EXCEPT ![p.color] = toggle(@, sq)],
                  toggle(b.occupied, sq)),
          ret |-> piece]
    ELSE [board |-> b, ret |-> piece]

\* discard_piece_at clearing each role-set instead of discarding sq from it.
discard_piece_at_clear_roles(b, sq) ==
    Board([r \in Roles |-> EMPTY],
          [c \in Colors |-> discard(b.by_color[c], sq)],
          discard(b.occupied, sq))

\* discard_piece_at without the pass over the color-sets.
discard_piece_at_keep_colors(b, sq) ==
    Board([r \in Roles |-> discard(b.by_role[r], sq)],
          b.by_color,
          discard(b.occupied, sq))

discard_piece_at(b, sq) ==
    Board([r \in Roles |-> discard(b.by_role[r], sq)],
          [c \in Colors |-> discard(b.by_color[c], sq)],
          discard(b.occupied, sq))

\* set_piece_at without the discard_piece_at that precedes the toggles.
set_piece_at_no_discard(b, sq, piece) ==
    Board([b.by_role EXCEPT ![piece.role] = toggle(@, sq)],
          [b.by_color EXCEPT ![piece.color] = toggle(@, sq)],
          toggle(b.occupied, sq))

set_piece_at(b, sq, piece) ==
    LET d == discard_piece_at(b, sq) IN
    Board([d.by_role EXCEPT ![piece.role] = toggle(@, sq)],
          [d.by_color EXCEPT ![piece.color] = toggle(@, sq)],
          toggle(d.occupied, sq))

\* transform that rebuilds occupied from the white set alone.
transform_white_only(b, f) ==
    LET r == [x \in Roles |-> Apply(f, b.by_role[x])]
        c == [x \in Colors |-> Apply(f, b.by_color[x])]
    IN  Board(r, c, c["white"])

\* transform without the pass over the color-sets.
transform_roles_only(b, f) ==
    LET r == [x \in Roles |-> Apply(f, b.by_role[x])]
        c == b.by_color
    IN  Board(r, c, BitOr(c["white"], c["black"]))

transform(b, f) ==
    LET r == [x \in Roles |-> Apply(f, b.by_role[x])]
        c == [x \in Colors |-> Apply(f, b.by_color[x])]
    IN  Board(r, c, BitOr(c["white"], c["black"]))

flip_vertical(b) == transform(b, "flip_vertical")
flip_horizontal(b) == transform(b, "flip_horizontal")

\* flip_diagonal passing Bitboard::flip_anti_diagonal.
flip_diagonal_as_anti(b) == transform(b, "flip_anti_diagonal")

flip_diagonal(b) == transform(b, "flip_diagonal")
flip_anti_diagonal(b) == transform(b, "flip_anti_diagonal")
rotate_90(b) == transform(b, "rotate_90")

\* rotate_180 passing Bitboard::rotate_90.
rotate_180_as_rotate_90(b) == transform(b, "rotate_90")

rotate_180(b) == transform(b, "rotate_180")
rotate_270(b) == transform(b, "rotate_270")

\* pop_front / pop_back, given the Option<Square> that first() or last()
\* returned: and_then(|sq| remove_piece_at(sq).map(|piece| (sq, piece))).
PopAt(b, opt) ==
    IF opt = None THEN [board |-> b, ret |-> None]
    ELSE LET sq == unwrap(opt)
             r == remove_piece_at(b, sq)
         IN  [board |-> r.board,
              ret |-> IF r.ret = None THEN None
                      ELSE Some(<<sq, unwrap(r.ret)>>)]

pop_front(b) == PopAt(b, first(b.occupied))

\* pop_back taking the first square of occupied, as pop_front does.
pop_back_first(b) == PopAt(b, first(b.occupied))

pop_back(b) == PopAt(b, last_square(b.occupied))

----------------------------------------------------------------------------
(* Boards read from the board part of a FEN, as the tests build them.      *)

\* Piece::from_char: the piece of a glyph, upper case for white.
Glyphs == <<"P", "N", "B", "R", "Q", "K", "p", "n", "b", "r", "q", "k">>
from_char(ch) ==
    LET i == CHOOSE n \in 1..Len(Glyphs) : Glyphs[n] = ch IN
    [color |-> (IF i <= Len(RoleSeq) THEN "white" ELSE "black"),
     role |-> RoleSeq[((i - 1) % Len(RoleSeq)) + 1]]

\* The number of empty squares a digit of a FEN stands for (0 if ch is no
\* digit).
Digits == <<"1", "2", "3", "4", "5", "6", "7", "8">>
Skip(ch) ==
    IF \E n \in 1..Len(Digits) : Digits[n] = ch
    THEN CHOOSE n \in 1..Len(Digits) : Digits[n] = ch
    ELSE 0

\* The width of a token of a FEN row: a digit skips that many squares, a
\* glyph fills one.
Width(ch) == IF Skip(ch) > 0 THEN Skip(ch) ELSE 1

\* The file the i-th token of a row starts on.
RECURSIVE FileOf(_, _)
FileOf(row, i) ==
    IF i = 1 THEN 0 ELSE FileOf(row, i - 1) + Width(row[i - 1])

\* The pairs <<square, piece>> of a FEN, its first row being rank 8.
Placements(rows) ==
    {<<from_coords(FileOf(rows[j], i), 8 - j), from_char(rows[j][i])>> :
        <<j, i>> \in {x \in (1..Len(rows)) \X (1..8) :
                         /\ x[2] <= Len(rows[x[1]])
                         /\ Skip(rows[x[1]][x[2]]) = 0}}

\* The board of a FEN: each glyph's square is in the sets of its piece.
from_ascii_board_fen(rows) ==
    LET placed == Placements(rows) IN
    Board([r \in Roles |-> {x[1] : x \in {y \in placed : y[2].role = r}}],
          [c \in Colors |-> {x[1] : x \in {y \in placed : y[2].color = c}}],
          {x[1] : x \in placed})

\* test_board_transformation: the board and the boards it expects.
\* "1qrb4/1k2n3/1P2p3/1N1K4/1BQ5/1R1R4/1Q2B3/1K3N2"
TestBoard ==
    from_ascii_board_fen(<<
        <<"1", "q", "r", "b", "4">>, <<"1", "k", "2", "n", "3">>,
        <<"1", "P", "2", "p", "3">>, <<"1", "N", "1", "K", "4">>,
        <<"1", "B", "Q", "5">>, <<"1", "R", "1", "R", "4">>,
        <<"1", "Q", "2", "B", "3">>, <<"1", "K", "3", "N", "2">> >>)

\* "1K3N2/1Q2B3/1R1R4/1BQ5/1N1K4/1P2p3/1k2n3/1qrb4"
TestFlipVertical ==
    from_ascii_board_fen(<<
        <<"1", "K", "3", "N", "2">>, <<"1", "Q", "2", "B", "3">>,
        <<"1", "R", "1", "R", "4">>, <<"1", "B", "Q", "5">>,
        <<"1", "N", "1", "K", "4">>, <<"1", "P", "2", "p", "3">>,
        <<"1", "k", "2", "n", "3">>, <<"1", "q", "r", "b", "4">> >>)

\* "4brq1/3n2k1/3p2P1/4K1N1/5QB1/4R1R1/3B2Q1/2N3K1"
TestFlipHorizontal ==
    from_ascii_board_fen(<<
        <<"4", "b", "r", "q", "1">>, <<"3", "n", "2", "k", "1">>,
        <<"3", "p", "2", "P", "1">>, <<"4", "K", "1", "N", "1">>,
        <<"5", "Q", "B", "1">>, <<"4", "R", "1", "R", "1">>,
        <<"3", "B", "2", "Q", "1">>, <<"2", "N", "3", "K", "1">> >>)

\* "8/8/N7/1B3pn1/2R1K2b/3Q3r/KQRBNPkq/8"
TestFlipDiagonal ==
    from_ascii_board_fen(<<
        <<"8">>, <<"8">>, <<"N", "7">>,
        <<"1", "B", "3", "p", "n", "1">>,
        <<"2", "R", "1", "K", "2", "b">>, <<"3", "Q", "3", "r">>,
        <<"K", "Q", "R", "B", "N", "P", "k", "q">>, <<"8">> >>)

\* "8/qkPNBRQK/r3Q3/b2K1R2/1np3B1/7N/8/8"
TestFlipAntiDiagonal ==
    from_ascii_board_fen(<<
        <<"8">>, <<"q", "k", "P", "N", "B", "R", "Q", "K">>,
        <<"r", "3", "Q", "3">>, <<"b", "2", "K", "1", "R", "2">>,
        <<"1", "n", "p", "3", "B", "1">>, <<"7", "N">>,
        <<"8">>, <<"8">> >>)

\* "8/KQRBNPkq/3Q3r/2R1K2b/1B3pn1/N7/8/8"
TestRotate90 ==
    from_ascii_board_fen(<<
        <<"8">>, <<"K", "Q", "R", "B", "N", "P", "k", "q">>,
        <<"3", "Q", "3", "r">>, <<"2", "R", "1", "K", "2", "b">>,
        <<"1", "B", "3", "p", "n", "1">>, <<"N", "7">>,
        <<"8">>, <<"8">> >>)

\* "2N3K1/3B2Q1/4R1R1/5QB1/4K1N1/3p2P1/3n2k1/4brq1"
TestRotate180 ==
    from_ascii_board_fen(<<
        <<"2", "N", "3", "K", "1">>, <<"3", "B", "2", "Q", "1">>,
        <<"4", "R", "1", "R", "1">>, <<"5", "Q", "B", "1">>,
        <<"4", "K", "1", "N", "1">>, <<"3", "p", "2", "P", "1">>,
        <<"3", "n", "2", "k", "1">>, <<"4", "b", "r", "q", "1">> >>)

\* "8/8/7N/1np3B1/b2K1R2/r3Q3/qkPNBRQK/8"
TestRotate270 ==
    from_ascii_board_fen(<<
        <<"8">>, <<"8">>, <<"7", "N">>,
        <<"1", "n", "p", "3", "B", "1">>,
        <<"b", "2", "K", "1", "R", "2">>, <<"r", "3", "Q", "3">>,
        <<"q", "k", "P", "N", "B", "R", "Q", "K">>, <<"8">> >>)

\* test_set_piece_at: a white pawn set on a3 of new() is found there.
test_set_piece_at ==
    LET A3 == from_coords(0, 2)
        pawn == [color |-> "white", role |-> "pawn"]
    IN  piece_at(set_piece_at(new, A3, pawn), A3) = Some(pawn)

\* The assertions of test_board_transformation.
test_board_transformation ==
    /\ flip_vertical(TestBoard) = TestFlipVertical
    /\ flip_horizontal(TestBoard) = TestFlipHorizontal
    /\ flip_diagonal(TestBoard) = TestFlipDiagonal
    /\ flip_anti_diagonal(TestBoard) = TestFlipAntiDiagonal
    /\ rotate_90(TestBoard) = TestRotate90
    /\ rotate_180(TestBoard) = TestRotate180
    /\ rotate_270(TestBoard) = TestRotate270

----------------------------------------------------------------------------
(* IntoIter { inner: b }: the methods that only read.                      *)

\* ExactSizeIterator::len
len(b) == count(b.occupied)

\* Iterator::size_hint
size_hint(b) == LET n == len(b) IN <<n, Some(n)>>

\* Iterator::count
iter_count(b) == len(b)

----------------------------------------------------------------------------
(* The state machine.                                                      *)

\* The subsets of S of at most n elements.
RECURSIVE UpTo(_, _)
UpTo(S, n) ==
    IF n = 0 THEN {{}}
    ELSE LET less == UpTo(S, n - 1) IN
         less \cup {T \cup {x} : T \in less, x \in S}

\* The role tables and color tables from_bitboards is called with.
RoleTables ==
    {[r \in Roles |-> {p[2] : p \in {q \in bits : q[1] = r}}] :
        bits \in UpTo(Roles \X ArgSquares, MaxBits)}
ColorTables ==
    {[c \in Colors |-> {p[2] : p \in {q \in bits : q[1] = c}}] :
        bits \in UpTo(Colors \X ArgSquares, MaxBits)}

NoIter ==
    /\ origin = None
    /\ front = <<>>
    /\ back = <<>>
    /\ exhausted = FALSE

InitEmpty ==
    /\ board = empty
    /\ mode = "board"
    /\ last = [op |-> "empty"]
    /\ NoIter

InitNew ==
    /\ board = new
    /\ mode = "board"
    /\ last = [op |-> "new"]
    /\ NoIter

InitRacingKings ==
    /\ board = racing_kings
    /\ mode = "board"
    /\ last = [op |-> "racing_kings"]
    /\ NoIter

InitHorde ==
    /\ board = horde
    /\ mode = "board"
    /\ last = [op |-> "horde"]
    /\ NoIter

InitFromBitboards ==
    \E r \in RoleTables, c \in ColorTables :
        LET res == from_bitboards(r, c) IN
        /\ board = (IF res.panic THEN None ELSE res.board)
        /\ mode = (IF res.panic THEN "panic" ELSE "board")
        /\ last = [op |-> "from_bitboards", by_role |-> r, by_color |-> c]
        /\ NoIter

\* A board parsed from a FEN: the one of test_board_transformation.
InitParsed ==
    /\ board = TestBoard
    /\ mode = "board"
    /\ last = [op |-> "parse"]
    /\ NoIter

Init ==
    \/ InitEmpty
    \/ InitNew
    \/ InitRacingKings
    \/ InitHorde
    \/ InitFromBitboards
    \/ InitParsed

KeepIter == UNCHANGED <<mode, origin, front, back, exhausted>>

SetPieceAt ==
    \E sq \in ArgSquares, piece \in Pieces :
        /\ mode = "board"
        /\ count(board.occupied \ {sq}) < MaxPieces
        /\ board' = set_piece_at(board, sq, piece)
        /\ last' = [op |-> "set_piece_at", sq |-> sq, piece |-> piece,
                     replaced |-> piece_at(board, sq) # None]
        /\ KeepIter

RemovePieceAt ==
    \E sq \in ArgSquares :
        LET res == remove_piece_at(board, sq) IN
        /\ mode = "board"
        /\ board' = res.board
        /\ last' = [op |-> "remove_piece_at", sq |-> sq, ret |-> res.ret]
        /\ KeepIter

DiscardPieceAt ==
    \E sq \in ArgSquares :
        /\ mode = "board"
        /\ board' = discard_piece_at(board, sq)
        /\ last' = [op |-> "discard_piece_at", sq |-> sq]
        /\ KeepIter

PopFront ==
    LET res == pop_front(board) IN
    /\ mode = "board"
    /\ count(board.occupied) <= MaxPieces
    /\ board' = res.board
    /\ last' = [op |-> "pop_front", ret |-> res.ret]
    /\ KeepIter

PopBack ==
    LET res == pop_back(board) IN
    /\ mode = "board"
    /\ count(board.occupied) <= MaxPieces
    /\ board' = res.board
    /\ last' = [op |-> "pop_back", ret |-> res.ret]
    /\ KeepIter

FlipVertical ==
    /\ mode = "board"
    /\ board' = flip_vertical(board)
    /\ last' = [op |-> "flip_vertical"]
    /\ KeepIter

FlipHorizontal ==
    /\ mode = "board"
    /\ board' = flip_horizontal(board)
    /\ last' = [op |-> "flip_horizontal"]
    /\ KeepIter

FlipDiagonal ==
    /\ mode = "board"
    /\ board' = flip_diagonal(board)
    /\ last' = [op |-> "flip_diagonal"]
    /\ KeepIter

FlipAntiDiagonal ==
    /\ mode = "board"
    /\ board' = flip_anti_diagonal(board)
    /\ last' = [op |-> "flip_anti_diagonal"]
    /\ KeepIter

Rotate90 ==
    /\ mode = "board"
    /\ board' = rotate_90(board)
    /\ last' = [op |-> "rotate_90"]
    /\ KeepIter

Rotate180 ==
    /\ mode = "board"
    /\ board' = rotate_180(board)
    /\ last' = [op |-> "rotate_180"]
    /\ KeepIter

Rotate270 ==
    /\ mode = "board"
    /\ board' = rotate_270(board)
    /\ last' = [op |-> "rotate_270"]
    /\ KeepIter

\* IntoIterator::into_iter
IntoIter ==
    /\ mode = "board"
    /\ count(board.occupied) <= MaxPieces
    /\ mode' = "iter"
    /\ origin' = Some(board)
    /\ last' = [op |-> "into_iter"]
    /\ UNCHANGED <<board, front, back, exhausted>>

\* Iterator::next
IterNext ==
    LET res == pop_front(board) IN
    /\ mode = "iter"
    /\ board' = res.board
    /\ front' = (IF res.ret = None THEN front
                 ELSE Append(front, unwrap(res.ret)))
    /\ exhausted' = (exhausted \/ res.ret = None)
    /\ last' = [op |-> "next", ret |-> res.ret]
    /\ UNCHANGED <<mode, origin, back>>

\* DoubleEndedIterator::next_back
IterNextBack ==
    LET res == pop_back(board) IN
    /\ mode = "iter"
    /\ board' = res.board
    /\ back' = (IF res.ret = None THEN back
                ELSE Append(back, unwrap(res.ret)))
    /\ exhausted' = (exhausted \/ res.ret = None)
    /\ last' = [op |-> "next_back", ret |-> res.ret]
    /\ UNCHANGED <<mode, origin, front>>

Next ==
    \/ SetPieceAt
    \/ RemovePieceAt
    \/ DiscardPieceAt
    \/ PopFront
    \/ PopBack
    \/ FlipVertical
    \/ FlipHorizontal
    \/ FlipDiagonal
    \/ FlipAntiDiagonal
    \/ Rotate90
    \/ Rotate180
    \/ Rotate270
    \/ IntoIter
    \/ IterNext
    \/ IterNextBack

Spec == Init /\ [][Next]_vars

----------------------------------------------------------------------------
(* The boards the attack queries are asked of: built from empty() by       *)
(* set_piece_at on the squares of AttackSquares, which places a piece or   *)
(* replaces the one that stands there.                                     *)

AttackSetPieceAt ==
    \E sq \in AttackSquares, piece \in AttackPieces :
        /\ mode = "board"
        /\ count(board.occupied \ {sq}) < MaxAttackPieces
        /\ board' = set_piece_at(board, sq, piece)
        /\ last' = [op |-> "set_piece_at", sq |-> sq, piece |-> piece,
                     replaced |-> piece_at(board, sq) # None]
        /\ KeepIter

NextAttacks == AttackSetPieceAt

SpecAttacks == InitEmpty /\ [][NextAttacks]_vars

----------------------------------------------------------------------------
(* The invariants I1-I4 of a Board.                                        *)

\* I1: the role-sets are pairwise disjoint.
I1(b) ==
    \A r1, r2 \in Roles :
        r1 # r2 => b.by_role[r1] \cap b.by_role[r2] = {}

\* I2: the two color-sets are disjoint.
I2(b) == b.by_color["white"] \cap b.by_color["black"] = {}

\* I3: occupied is the union of the color-sets and of the role-sets.
I3(b) ==
    /\ b.occupied = UNION {b.by_color[c] : c \in Colors}
    /\ b.occupied = UNION {b.by_role[r] : r \in Roles}

\* I4: an occupied square is in exactly one role-set and one color-set.
I4(b) ==
    \A sq \in b.occupied :
        /\ Cardinality({r \in Roles : sq \in b.by_role[r]}) = 1
        /\ Cardinality({c \in Colors : sq \in b.by_color[c]}) = 1

HasBoard == mode \in {"board", "iter"}

\* C1: after every sequence of set_piece_at, remove_piece_at,
\* discard_piece_at, pop_front, pop_back and the seven transforms, from
\* empty(), new() or a board from_bitboards accepted, the board satisfies
\* I1, I2, I3 and I4.
C1_InvariantsPreserved ==
    HasBoard => I1(board) /\ I2(board) /\ I3(board) /\ I4(board)

\* A set_piece_at has just replaced a piece, on a board that holds a piece
\* of another role and color too.
C1_Witness ==
    /\ mode = "board"
    /\ last.op = "set_piece_at"
    /\ last.replaced
    /\ \E sq \in board.occupied :
          /\ piece_at(board, sq) # None
          /\ unwrap(piece_at(board, sq)).role # last.piece.role
          /\ unwrap(piece_at(board, sq)).color # last.piece.color

\* C2: after set_piece_at(s, p), piece_at(s) returns p, whatever s held
\* (as test_set_piece_at asserts of a3 on new()).
C2_SetThenPieceAt ==
    /\ test_set_piece_at
    /\ (mode = "board" /\ last.op = "set_piece_at")
          => piece_at(board, last.sq) = Some(last.piece)

\* set_piece_at has just put a black king on a square that held a piece.
C2_Witness ==
    /\ mode = "board"
    /\ last.op = "set_piece_at"
    /\ last.replaced
    /\ last.piece = [color |-> "black", role |-> "king"]
    /\ piece_at(board, last.sq) = Some(last.piece)

\* What C3 says of one step.
C3_Step ==
    (mode = "board" /\ last'.op = "remove_piece_at") =>
        LET sq == last'.sq
            p == piece_at(board, sq)
        IN  /\ p # None =>
                  /\ last'.ret = p
                  /\ piece_at(board', sq) = None
                  /\ sq \notin board'.occupied
            /\ (last.op = "remove_piece_at" /\ last.sq = sq) =>
                  /\ last'.ret = None
                  /\ board' = board

\* C3: remove_piece_at(s) on an occupied square returns the piece that
\* stood there and leaves s empty and out of occupied; a second
\* remove_piece_at(s) returns None and leaves the three fields unchanged.
C3_RemoveSymmetry == [][C3_Step]_vars

\* remove_piece_at has just returned a piece; the square is empty now and
\* a further remove_piece_at of it returns None.
C3_Witness ==
    /\ mode = "board"
    /\ last.op = "remove_piece_at"
    /\ last.ret # None
    /\ piece_at(board, last.sq) = None
    /\ board.occupied # {}
    /\ remove_piece_at(board, last.sq) = [board |-> board, ret |-> None]

\* The tables are inconsistent: two role-sets share a square, or the
\* color-sets share a square, or the two unions differ.
Inconsistent(r, c) ==
    \/ \E r1, r2 \in Roles : r1 # r2 /\ r[r1] \cap r[r2] # {}
    \/ c["white"] \cap c["black"] # {}
    \/ UNION {r[x] : x \in Roles} # UNION {c[x] : x \in Colors}

\* C4: from_bitboards(by_role, by_color) panics if and only if two
\* role-sets share a square, the color-sets share a square, or the union
\* of the role-sets differs from the union of the color-sets; otherwise
\* it returns the Board of these tables, occupied being their union.
C4_FromBitboardsPanics ==
    last.op = "from_bitboards" =>
        /\ (mode = "panic") <=> Inconsistent(last.by_role, last.by_color)
        /\ mode # "panic" =>
              /\ board.by_role = last.by_role
              /\ board.by_color = last.by_color
              /\ board.occupied = UNION {last.by_role[x] : x \in Roles}
              /\ board.occupied = UNION {last.by_color[x] : x \in Colors}

\* from_bitboards has panicked on tables whose role-sets are disjoint and
\* cover the same squares as the color-sets, which share a square.
C4_Witness ==
    /\ last.op = "from_bitboards"
    /\ mode = "panic"
    /\ \A r1, r2 \in Roles :
          r1 # r2 => last.by_role[r1] \cap last.by_role[r2] = {}
    /\ UNION {last.by_role[x] : x \in Roles}
          = UNION {last.by_color[x] : x \in Colors}
    /\ last.by_color["white"] \cap last.by_color["black"] # {}

\* The squares of a sequence of yielded pairs.
SquaresOf(pairs) == {pairs[i][1] : i \in 1..Len(pairs)}

\* C5: draining the consuming sequence of a board of k pieces by any
\* interleaving of next and next_back yields exactly k pairs before the
\* first None; the squares yielded from the front increase strictly, those
\* from the back decrease strictly, every front square is lower than every
\* back square, no occupied square is yielded twice or skipped, and each
\* yielded piece is the one that stood on its square in the original board.
C5_ExtractionExact ==
    mode = "iter" =>
        LET o == unwrap(origin)
            k == count(o.occupied)
            yielded == SquaresOf(front) \cup SquaresOf(back)
        IN  /\ \A i, j \in 1..Len(front) : i < j => front[i][1] < front[j][1]
            /\ \A i, j \in 1..Len(back) : i < j => back[i][1] > back[j][1]
            /\ \A i \in 1..Len(front), j \in 1..Len(back) :
                  front[i][1] < back[j][1]
            /\ \A i \in 1..Len(front) :
                  piece_at(o, front[i][1]) = Some(front[i][2])
            /\ \A i \in 1..Len(back) :
                  piece_at(o, back[i][1]) = Some(back[i][2])
            /\ yielded \subseteq o.occupied
            /\ \A sq \in o.occupied \ yielded :
                  /\ \A f \in SquaresOf(front) : f < sq
                  /\ \A h \in SquaresOf(back) : sq < h
            /\ Len(front) + Len(back) <= k
            /\ exhausted => Len(front) + Len(back) = k

\* A board of two pieces was drained from both ends until None came.
C5_Witness ==
    /\ mode = "iter"
    /\ exhausted
    /\ Len(front) = 1
    /\ Len(back) = 1
    /\ front[1][1] < back[1][1]

\* The remaining length of the sequence, and what a call made after a
\* None returns.
C6_Len ==
    mode = "iter" =>
        LET n == count(unwrap(origin).occupied) - Len(front) - Len(back)
        IN  /\ len(board) = Cardinality(board.occupied)
            /\ len(board) = n
            /\ size_hint(board) = <<n, Some(n)>>
            /\ iter_count(board) = n

C6_Step ==
    (mode = "iter" /\ exhausted /\ last'.op \in {"next", "next_back"})
        => (last'.ret = None /\ board' = board)

\* C6: while the sequence is drained, len(), both bounds of size_hint and
\* count equal the number of squares still occupied in the inner board,
\* the original population minus the pairs yielded so far; and once a
\* call has returned None, every later next or next_back returns None.
C6_ExactLenAndFused == [](C6_Len) /\ [][C6_Step]_vars

\* The sequence of a board of two pieces is exhausted, a call has returned
\* None and the length is 0.
C6_Witness ==
    /\ mode = "iter"
    /\ exhausted
    /\ last.op = "next_back"
    /\ last.ret = None
    /\ Len(front) + Len(back) = 2
    /\ len(board) = 0

\* C7: flip_vertical twice, flip_horizontal twice, rotate_90 four times,
\* and flip_vertical, flip_horizontal, flip_vertical, flip_horizontal in
\* that order each give back a board equal to the one they started from.
C7_TransformInvolutions ==
    mode = "board" =>
        /\ flip_vertical(flip_vertical(board)) = board
        /\ flip_horizontal(flip_horizontal(board)) = board
        /\ rotate_90(rotate_90(rotate_90(rotate_90(board)))) = board
        /\ flip_horizontal(flip_vertical(
              flip_horizontal(flip_vertical(board)))) = board

\* A board of both colors that a flip_vertical has just produced, and
\* that no single flip_vertical, flip_horizontal or rotate_90 leaves
\* unchanged.
C7_Witness ==
    /\ mode = "board"
    /\ last.op = "flip_vertical"
    /\ board.by_color["white"] # {}
    /\ board.by_color["black"] # {}
    /\ flip_vertical(board) # board
    /\ flip_horizontal(board) # board
    /\ rotate_90(board) # board
    /\ rotate_90(rotate_90(board)) # board

\* C8: rotate_180 gives the board that flip_vertical followed by
\* flip_horizontal gives, and that flip_horizontal followed by
\* flip_vertical gives.
C8_Rotate180IsTwoFlips ==
    mode = "board" =>
        /\ rotate_180(board) = flip_horizontal(flip_vertical(board))
        /\ rotate_180(board) = flip_vertical(flip_horizontal(board))

\* A board that a rotate_180 has just produced and that differs from its
\* own rotate_180, flip_vertical and flip_horizontal.
C8_Witness ==
    /\ mode = "board"
    /\ last.op = "rotate_180"
    /\ board.occupied # {}
    /\ rotate_180(board) # board
    /\ rotate_180(board) # flip_vertical(board)
    /\ rotate_180(board) # flip_horizontal(board)

\* The square C9 says the piece of the square (file c, rank r) moves to.
MovesTo(f, sq) ==
    LET c == File(sq)
        r == Rank(sq)
    IN  CASE f = "flip_vertical" -> from_coords(c, 7 - r)
          [] f = "flip_horizontal" -> from_coords(7 - c, r)
          [] f = "flip_diagonal" -> from_coords(r, c)
          [] f = "flip_anti_diagonal" -> from_coords(7 - r, 7 - c)
          [] f = "rotate_90" -> from_coords(r, 7 - c)
          [] f = "rotate_180" -> from_coords(7 - c, 7 - r)
          [] f = "rotate_270" -> from_coords(7 - r, c)

\* MovesTo is a bijection of the 64 squares, for each transform.
MovesToIsBijection ==
    \A f \in Transforms : {MovesTo(f, sq) : sq \in Squares} = Squares

\* A step of the transform named last'.op.
TransformStep == mode = "board" /\ last'.op \in Transforms

\* The squares that are in some role-set or color-set of b, or in occupied.
InSomeSet(b) ==
    UNION ({b.by_role[r] : r \in Roles} \cup {b.by_color[c] : c \in Colors}
           \cup {b.occupied})

\* Every piece has moved along MovesTo, and a square no piece has moved to
\* (the square an empty square maps to, MovesTo being a bijection) is in
\* none of the nine sets.
C9_Step ==
    TransformStep =>
        /\ \A sq \in InSomeSet(board) :
              piece_at(board', MovesTo(last'.op, sq)) = piece_at(board, sq)
        /\ InSomeSet(board') \subseteq
              {MovesTo(last'.op, sq) : sq \in board.occupied}

\* C9: each of the seven transforms moves every piece, its color and role
\* unchanged, along one fixed bijection of the 64 squares: (c, r) goes to
\* (c, 7-r) by flip_vertical, (7-c, r) by flip_horizontal, (r, c) by
\* flip_diagonal, (7-r, 7-c) by flip_anti_diagonal, (r, 7-c) by rotate_90,
\* (7-c, 7-r) by rotate_180, (7-r, c) by rotate_270; empty squares go to
\* empty squares.  The boards test_board_transformation expects are the
\* ones the transforms give.
C9_TransformsMovePieces ==
    /\ [](MovesToIsBijection)
    /\ [](test_board_transformation)
    /\ [][C9_Step]_vars

\* A rotate_90 has just moved pieces of both colors to squares they did
\* not stand on.
C9_Witness ==
    /\ mode = "board"
    /\ last.op = "rotate_90"
    /\ board.by_color["white"] # {}
    /\ board.by_color["black"] # {}
    /\ rotate_270(board).occupied \cap board.occupied = {}

C10_Step ==
    TransformStep =>
        /\ material(board') = material(board)
        /\ \A c \in Colors, r \in Roles :
              /\ material_side(board, c)[r] =
                    Cardinality(board.by_role[r] \cap board.by_color[c])
              /\ Cardinality(board'.by_role[r] \cap board'.by_color[c]) =
                    Cardinality(board.by_role[r] \cap board.by_color[c])

\* C10: material() after each of the seven transforms equals material()
\* before it: for each color and role the number of squares in both the
\* role-set and the color-set, which is material_side(color)[role], is
\* unchanged.
C10_MaterialConserved == [][C10_Step]_vars

\* A flip_diagonal has just produced a board of both colors that differs
\* from the board before it.
C10_Witness ==
    /\ mode = "board"
    /\ last.op = "flip_diagonal"
    /\ flip_diagonal(board) # board
    /\ \E r \in Roles : material(board)["white"][r] > 0
    /\ \E r \in Roles : material(board)["black"][r] > 0

----------------------------------------------------------------------------
(* Attack queries.                                                         *)

\* The occupancies attacks_to is given: every set of squares of
\* AttackSquares, the board's own occupied among them.
Occupancies == SUBSET AttackSquares

\* Scenario E: a lone white rook on e1 is among the white attackers of e4
\* under the board's own occupancy; once a white pawn stands on e2 it is
\* not, though it still is under the empty occupancy.
ScenarioE ==
    LET alone == set_piece_at(empty, 4, [color |-> "white", role |-> "rook"])
        blocked ==
            set_piece_at(alone, 12, [color |-> "white", role |-> "pawn"])
    IN  /\ 4 \in attacks_to(alone, 28, "white", alone.occupied)
        /\ 4 \notin attacks_to(blocked, 28, "white", blocked.occupied)
        /\ 4 \in attacks_to(blocked, 28, "white", EMPTY)

\* C11: attacks_to(sq, attacker, occ) takes the blockers from occ and the
\* pieces from the board: a rook or queen of color attacker on a square s
\* of the rank or file of sq, s # sq, is in the result exactly when no
\* square strictly between s and sq is in occ, whatever the board holds on
\* those squares (Scenario E).
C11_AttacksToBlockers ==
    /\ ScenarioE
    /\ mode = "board" =>
        \A s \in rooks_and_queens(board) :
            \A sq \in RookLines[s] \cap AttackSquares :
                \A occ \in Occupancies :
                    (s \in attacks_to(board, sq,
                                      unwrap(color_at(board, s)), occ))
                        <=> is_disjoint(BetweenTable[s][sq], occ)

\* The second step of Scenario E has been made: the white rook on e1, the
\* white pawn just set on e2, and e1 attacks e4 under the empty occupancy
\* only.
C11_Witness ==
    /\ mode = "board"
    /\ last.op = "set_piece_at"
    /\ last.sq = 12
    /\ last.piece = [color |-> "white", role |-> "pawn"]
    /\ piece_at(board, 4) = Some([color |-> "white", role |-> "rook"])
    /\ count(board.occupied) = 2
    /\ 4 \notin attacks_to(board, 28, "white", board.occupied)
    /\ 4 \in attacks_to(board, 28, "white", EMPTY)

\* Scenario B: on empty(), set_piece_at(e4, white queen) followed by
\* remove_piece_at(e4) returns the white queen and leaves empty().
ScenarioB ==
    LET queen == [color |-> "white", role |-> "queen"] IN
    remove_piece_at(set_piece_at(empty, 28, queen), 28)
        = [board |-> empty, ret |-> Some(queen)]

\* C12: on every reachable board b, for every unoccupied square s and every
\* piece p, set_piece_at(s, p) followed by remove_piece_at(s) returns p and
\* leaves a board equal to b in by_role, by_color and occupied
\* (Scenario B).
C12_SetThenRemove ==
    /\ ScenarioB
    /\ mode = "board" =>
        \A s \in ArgSquares \ board.occupied :
            \A p \in Pieces :
                remove_piece_at(set_piece_at(board, s, p), s)
                    = [board |-> board, ret |-> Some(p)]

\* A remove_piece_at has just returned a piece and left its square
\* unoccupied on a board that still holds a piece: setting the piece there
\* again and removing it gives this board back.
C12_Witness ==
    /\ mode = "board"
    /\ last.op = "remove_piece_at"
    /\ last.ret # None
    /\ board.occupied # {}
    /\ last.sq \notin board.occupied
    /\ remove_piece_at(set_piece_at(board, last.sq, unwrap(last.ret)),
                       last.sq).board = board

\* tests::test_piece_at
test_piece_at ==
    /\ piece_at(new, 8) = Some([color |-> "white", role |-> "pawn"])
    /\ piece_at(new, 1) = Some([color |-> "white", role |-> "knight"])

\* C13: the boards new(), racing_kings() and horde() return satisfy I1-I4,
\* their literal occupied being the union of their role-sets and of their
\* color-sets; new() has a white pawn on a2, a white knight on b1, a black
\* king on e8 and exactly 32 occupied squares.
C13_ConstructorsValid ==
    (mode = "board" /\ last.op \in {"new", "racing_kings", "horde"}) =>
        /\ board = (CASE last.op = "new" -> new
                      [] last.op = "racing_kings" -> racing_kings
                      [] last.op = "horde" -> horde)
        /\ I1(board) /\ I2(board) /\ I3(board) /\ I4(board)
        /\ last.op = "new" =>
            /\ test_piece_at
            /\ piece_at(board, 8) = Some([color |-> "white", role |-> "pawn"])
            /\ piece_at(board, 1)
                  = Some([color |-> "white", role |-> "knight"])
            /\ piece_at(board, 60)
                  = Some([color |-> "black", role |-> "king"])
            /\ count(board.occupied) = 32

\* new() has just returned: 16 squares of each color, a king of each.
C13_Witness ==
    /\ mode = "board"
    /\ last.op = "new"
    /\ count(by_color(board, "white")) = 16
    /\ count(by_color(board, "black")) = 16
    /\ count(by_role(board, "king")) = 2

\* Default::default for Board
default == new

\* tests::test_from_bitboards
test_from_bitboards ==
    LET tables == into_bitboards(default)
        res == from_bitboards(tables[1], tables[2])
    IN  ~res.panic /\ res.board = default

\* C14: for every reachable board b, from_bitboards of the two tables
\* b.into_bitboards() returns does not panic and returns a board equal to
\* b, occupied included.
C14_BitboardsRoundTrip ==
    /\ test_from_bitboards
    /\ HasBoard =>
        LET tables == into_bitboards(board) IN
        from_bitboards(tables[1], tables[2])
            = [panic |-> FALSE, board |-> board]

\* A transform has just moved a board of two pieces of different colors
\* and roles.
C14_Witness ==
    /\ mode = "board"
    /\ last.op \in Transforms
    /\ count(by_color(board, "white")) = 1
    /\ count(by_color(board, "black")) = 1
    /\ Cardinality({r \in Roles : by_role(board, r) # EMPTY}) = 2

\* C15: on every reachable board and for every square sq, role_at(sq),
\* color_at(sq) and piece_at(sq) are present exactly when sq is in
\* occupied, and when present piece_at(sq) is the pair of color_at(sq) and
\* role_at(sq), though piece_at takes the color from the white set alone.
C15_QueriesAgree ==
    HasBoard =>
        \A sq \in Squares :
            LET role == role_at(board, sq)
                color == color_at(board, sq)
                piece == piece_at(board, sq)
            IN  /\ (role # None) <=> contains(board.occupied, sq)
                /\ (color # None) <=> contains(board.occupied, sq)
                /\ (piece # None) <=> contains(board.occupied, sq)
                /\ piece # None =>
                      piece = Some([color |-> unwrap(color),
                                    role |-> unwrap(role)])

\* A board that holds a black piece, whose color piece_at finds by the
\* square not being white, next to a white one and an unoccupied square
\* that the latest call has emptied.
C15_Witness ==
    /\ mode = "board"
    /\ last.op = "discard_piece_at"
    /\ piece_at(board, last.sq) = None
    /\ \E sq \in board.occupied : color_at(board, sq) = Some("black")
    /\ \E sq \in board.occupied : color_at(board, sq) = Some("white")

\* The squares on which piece_at finds a king of the color.
KingSquares(b, color) ==
    {sq \in b.occupied :
        piece_at(b, sq) = Some([color |-> color, role |-> "king"])}

\* C16, as claimed: on every reachable board and for each color,
\* king_of(color) returns a square holding that color's king, and returns
\* None exactly when no square holds one, on boards of zero, one or
\* several kings of the color.
C16_KingOfAnyKing ==
    HasBoard =>
        \A color \in Colors :
            LET king == king_of(board, color) IN
            /\ king = None <=> KingSquares(board, color) = {}
            /\ king # None => unwrap(king) \in KingSquares(board, color)

\* C16, amended: on every reachable board and for each color,
\* king_of(color) returns the square holding that color's king when
\* exactly one square holds one, and None exactly when the squares holding
\* one are none or several.
C16_KingOfUniqueKing ==
    HasBoard =>
        \A color \in Colors :
            LET king == king_of(board, color)
                kings == KingSquares(board, color)
            IN  /\ king = None <=> count(kings) # 1
                /\ king # None => kings = {unwrap(king)}

\* set_piece_at has just put a second king of one color on the board:
\* king_of returns None for it.
C16_Witness ==
    /\ mode = "board"
    /\ last.op = "set_piece_at"
    /\ last.piece.role = "king"
    /\ count(KingSquares(board, last.piece.color)) = 2
    /\ king_of(board, last.piece.color) = None

\* C17: on every reachable board sliders(), steppers(), rooks_and_queens()
\* and bishops_and_queens(), computed with xor, equal the unions of their
\* role-sets; sliders() and steppers() are disjoint and their union is
\* occupied().
C17_XorIsUnion ==
    HasBoard =>
        /\ sliders(board)
              = UNION {board.by_role[r] : r \in {"bishop", "rook", "queen"}}
        /\ steppers(board)
              = UNION {board.by_role[r] : r \in {"pawn", "knight", "king"}}
        /\ rooks_and_queens(board)
              = board.by_role["rook"] \cup board.by_role["queen"]
        /\ bishops_and_queens(board)
              = board.by_role["bishop"] \cup board.by_role["queen"]
        /\ sliders(board) \cap steppers(board) = {}
        /\ sliders(board) \cup steppers(board) = board.occupied

\* set_piece_at has just put a queen where another piece stood, on a board
\* that holds a stepper too.
C17_Witness ==
    /\ mode = "board"
    /\ last.op = "set_piece_at"
    /\ last.replaced
    /\ last.piece.role = "queen"
    /\ sliders(board) = {last.sq}
    /\ rooks_and_queens(board) = bishops_and_queens(board)
    /\ steppers(board) # {}

\* A step of set_piece_at, remove_piece_at or discard_piece_at on the
\* square s changes the membership of no other square in any of the nine
\* sets, and piece_at of no other square.
C18_Step ==
    (mode = "board"
        /\ last'.op \in {"set_piece_at", "remove_piece_at",
                         "discard_piece_at"}) =>
        LET s == last'.sq IN
        /\ \A r \in Roles : board'.by_role[r] \ {s} = board.by_role[r] \ {s}
        /\ \A c \in Colors :
              board'.by_color[c] \ {s} = board.by_color[c] \ {s}
        /\ board'.occupied \ {s} = board.occupied \ {s}
        /\ \A t \in (board.occupied \cup board'.occupied) \ {s} :
              piece_at(board', t) = piece_at(board, t)

\* C18: set_piece_at(s, p), remove_piece_at(s) and discard_piece_at(s)
\* change nothing outside s: for every square t # s, membership of t in
\* each of the six role-sets, the two color-sets and occupied is the same
\* before and after, and so is piece_at(t).
C18_FrameOutsideSquare == [][C18_Step]_vars

\* set_piece_at has just replaced the piece of one square while another
\* square holds a piece.
C18_Witness ==
    /\ mode = "board"
    /\ last.op = "set_piece_at"
    /\ last.replaced
    /\ board.occupied \ {last.sq} # {}

\* C19: for every reachable board and every square s, the board after
\* remove_piece_at(s), its result ignored, equals the board after
\* discard_piece_at(s).
C19_RemoveIsDiscard ==
    mode = "board" =>
        \A s \in board.occupied \cup ArgSquares :
            remove_piece_at(board, s).board = discard_piece_at(board, s)

\* discard_piece_at has just been called on a square that now holds
\* nothing, on a board with pieces of both colors: removing any of them
\* changes the board, as discarding it does.
C19_Witness ==
    /\ mode = "board"
    /\ last.op = "discard_piece_at"
    /\ last.sq \notin board.occupied
    /\ by_color(board, "white") # EMPTY
    /\ by_color(board, "black") # EMPTY
    /\ \A s \in board.occupied :
          /\ remove_piece_at(board, s).board # board
          /\ remove_piece_at(board, s).board = discard_piece_at(board, s)

\* C20: given the board's own occupancy, s is in
\* attacks_to(sq, c, occupied()) exactly when s holds a piece of color c
\* and sq is in attacks_from(s), pawns included (attacks_to asks for the
\* pawn attacks of the opposite color from sq); attacks_from(s) is empty
\* whenever s is unoccupied.
C20_AttacksToIsAttacksFrom ==
    mode = "board" =>
        /\ \A sq \in Squares, c \in Colors :
              attacks_to(board, sq, c, board.occupied)
                  = {s \in board.occupied :
                        /\ color_at(board, s) = Some(c)
                        /\ sq \in attacks_from(board, s)}
        /\ \A s \in Squares \ board.occupied :
              attacks_from(board, s) = EMPTY

\* A white pawn on d3 and a black pawn on e4: each is the attacker of the
\* other's square, for its own color only.
C20_Witness ==
    /\ mode = "board"
    /\ last.op = "set_piece_at"
    /\ piece_at(board, 19) = Some([color |-> "white", role |-> "pawn"])
    /\ piece_at(board, 28) = Some([color |-> "black", role |-> "pawn"])
    /\ attacks_to(board, 28, "white", board.occupied) = {19}
    /\ attacks_to(board, 19, "black", board.occupied) = {28}
    /\ 28 \in attacks_from(board, 19)
    /\ 19 \in attacks_from(board, 28)

====
